---- MODULE Spec2Model ----
(***************************************************************************)
(* MorphProxy: a rotating reverse-proxy front-end.                         *)
(*                                                                         *)
(* The model follows src/utils.go (the proxy worker, the header-rule       *)
(* engine, the gzip middleware, NewProxyManager and the public entry       *)
(* point of main) and src/unnamed/part_001 (the rotator: switchProxy,      *)
(* UpdateActiveProxy, GetProxy).  Redis is the coordination store: the key *)
(* active_proxy, the channel proxy_updates and the stream proxy_requests.  *)
(***************************************************************************)
EXTENDS Integers, Sequences, FiniteSets, TLC

\* ------------------------------------------------------------------ bounds
ProxyCount == 2          \* -proxy-count: number of workers in rotation
MaxSwitches == 2         \* rotator ticks explored
MaxRequests == 2         \* requests a worker admits in the whole-system runs
MaxHandlers == 2         \* handler goroutines of a worker at a time

\* ------------------------------------------------------- program constants
RateLimit == 500         \* requestCounts[ip] > 500 => 429
MaxSuspicion == 20       \* NewSuspiciousRating("localhost:6379", 20)

VARIABLES
    proxies,          \* ProxyManager.proxies: sequence of url.URL
    currentProxy,     \* ProxyManager.currentProxy
    pmPc,             \* rotator position; pm.mu is held unless "idle"
    switches,         \* completed calls of switchProxy
    lastSet,          \* outcome of the last Set of active_proxy: none, ok, err
    activeProxyKey,   \* Redis key active_proxy (NoKey when absent)
    published,        \* the payloads proxy_updates has carried, in order
    subs,             \* per worker: subscribed?, and its proxy_updates channel
    currentProxyURL,  \* package-level cache written by every subscriber
    started,          \* per worker: StartProxyServer has run
    requestCounts,    \* per worker: RemoteAddr -> count
    req,              \* per worker: the request holding mu, or NoReq
    resp,             \* per worker: the last response written
    entryResp,        \* last response of the public entry point
    rating,           \* suspicion rating per rating key (kept in Redis)
    flags,            \* command line: detection, queue, api, acl
    headerRules,      \* the rule list loaded from -header-rules
    engine,           \* a response header under the header-rule engine
    stream,           \* proxy_requests: every entry appended, in order
    delivered,        \* proxy_group's last-delivered position in the stream
    pel,              \* proxy_group's pending entries: delivered, not acked
    mu,               \* per worker: the handler goroutine holding mu, or 0
    handlers,         \* per worker: position of each handler goroutine
    client            \* a client following redirects from the entry point

\* -------------------------------------------------------------------- URLs
NoKey == "<nil>"
NoURL == [Scheme |-> "", Host |-> ""]

\* url.URL.String() for a URL with scheme and host only
URLString(u) == u.Scheme \o "://" \o u.Host

ServerIP == "host"
PortList == <<"8081", "8082", "8083", "8084">>
Workers == 1..ProxyCount

\* main: proxyConfigs[i].address = ":" + portList[i % len(portList)]
Address(i) == ":" \o PortList[((i - 1) % Len(PortList)) + 1]

\* main: proxyURLs[i] = "https://" + serverIP + address, then url.Parse
ProxyURL(i) == [Scheme |-> "https", Host |-> ServerIP \o Address(i)]

\* the Host header a client sends when it addresses worker i
WorkerHost(i) == ServerIP \o Address(i)

\* ---------------------------------------------------------------- registry
Swap_Mut(s, i, j) == [s EXCEPT ![i] = s[j]]
Swap(s, i, j) == [s EXCEPT ![i] = s[j], ![j] = s[i]]

\* rand.Shuffle(n, swap): for i = n-1 downto 1, j = rand(i+1), swap(i, j)
\* (1-based here); the set of all outcomes
RECURSIVE ShuffleFrom(_, _)
ShuffleFrom(s, i) ==
    IF i <= 1 THEN {s}
    ELSE UNION { ShuffleFrom(Swap(s, i, j), i - 1) : j \in 1..i }

Shuffle(s) == ShuffleFrom(s, Len(s))

\* NewProxyManager: proxies parsed in order, currentProxy = proxies[0]
NewProxies == [i \in Workers |-> ProxyURL(i)]
NewCurrentProxy(ps) == ps[1]

\* switchProxy, line 30: pm.currentProxy = pm.proxies[0]
SwitchCursor(ps) == ps[1]

\* ------------------------------------------------------ header-rule engine
\* http.Header: canonical name -> values in order (<<>>: absent).  A value is
\* a sequence of characters.
HeaderNames == {"Content-Encoding", "Content-Length", "Content-Type", "X-A"}
EmptyHeader == [n \in HeaderNames |-> <<>>]

HeaderAdd(h, n, v) == [h EXCEPT ![n] = Append(@, v)]
HeaderSet_Mut(h, n, v) == [h EXCEPT ![n] = Append(@, v)]
HeaderSet(h, n, v) == [h EXCEPT ![n] = <<v>>]
HeaderDel(h, n) == [h EXCEPT ![n] = <<>>]
\* Header.Get: the first value, "" when there is none
HeaderGet(h, n) == IF h[n] = <<>> THEN <<>> ELSE h[n][1]

\* The regular expressions of the model: literals, "." (any character), and
\* an unmatched "(", which regexp.MustCompile refuses.
RegexCompiles(re) == \A k \in 1..Len(re) : re[k] # "("

\* re matches s at its first character
MatchesAt(re, s) ==
    /\ Len(re) <= Len(s)
    /\ \A k \in 1..Len(re) : re[k] = "." \/ re[k] = s[k]

\* re.MatchString(s): re matches somewhere in s
RegexMatches(re, s) ==
    \E i \in 1..(Len(s) + 1) : MatchesAt(re, SubSeq(s, i, Len(s)))

\* re.ReplaceAllString(s, repl) for a non-empty re and a repl without "$":
\* leftmost non-overlapping matches, left to right
RECURSIVE ReplaceAllString(_, _, _)
ReplaceAllString(re, s, repl) ==
    IF s = <<>> THEN <<>>
    ELSE IF MatchesAt(re, s)
         THEN repl \o ReplaceAllString(re, SubSeq(s, Len(re) + 1, Len(s)), repl)
         ELSE <<Head(s)>> \o ReplaceAllString(re, Tail(s), repl)

\* applyHeaderRules, lines 138-153: one rule.  A replace-header rule whose
\* regex does not compile panics in regexp.MustCompile.
RulePanics(rule, h) ==
    /\ rule.Action = "replace-header"
    /\ rule.Regex # <<>>
    /\ HeaderGet(h, rule.Header) # <<>>
    /\ ~RegexCompiles(rule.Regex)

ApplyRule(rule, h) ==
    CASE rule.Action = "add-header" -> HeaderAdd(h, rule.Header, rule.Value)
      [] rule.Action = "set-header" -> HeaderSet(h, rule.Header, rule.Value)
      [] rule.Action = "del-header" -> HeaderDel(h, rule.Header)
      [] rule.Action = "replace-header" ->
            IF rule.Regex # <<>> /\ HeaderGet(h, rule.Header) # <<>>
            THEN HeaderSet(h, rule.Header,
                           ReplaceAllString(rule.Regex,
                                            HeaderGet(h, rule.Header),
                                            rule.Replacement))
            ELSE h
      [] OTHER -> h

\* applyHeaderRules, lines 136-155: the rules in order; a panic leaves the
\* loop with the header as the earlier rules made it
RECURSIVE applyHeaderRules(_, _)
applyHeaderRules(rules, h) ==
    IF rules = <<>> THEN [panic |-> FALSE, header |-> h]
    ELSE IF RulePanics(Head(rules), h) THEN [panic |-> TRUE, header |-> h]
    ELSE applyHeaderRules(Tail(rules), ApplyRule(Head(rules), h))

\* -------------------------------------------------------------------- gzip
\* A body is a sequence of bytes.  gzip.Writer wraps what is written into one
\* gzip member: a header, the data, a trailer.
Gzip(b) == <<"1f8b">> \o b \o <<"crc">>
\* what a client recovers by decoding one gzip layer
Gunzip(b) == SubSeq(b, 2, Len(b) - 1)

GzipStr == <<"g", "z", "i", "p">>

\* strings.Contains(r.Header.Get("Accept-Encoding"), "gzip")
AcceptsGzip(ae) ==
    \E i \in 1..(Len(ae) + 1) :
        /\ i + Len(GzipStr) - 1 <= Len(ae)
        /\ SubSeq(ae, i, i + Len(GzipStr) - 1) = GzipStr

\* ------------------------------------------------------------------- store
\* Redis outlives the process: at start active_proxy is absent or holds the
\* URL a previous run left there.
StoreInit == {NoKey} \cup { URLString(ProxyURL(i)) : i \in Workers }

\* redisClient.Get(ctx, "active_proxy").Result(): err when the key is absent
\* (redis.Nil) or the store cannot be reached
GetErr(up) == ~up \/ activeProxyKey = NoKey

SetValue_Mut(u) == u.Host
\* UpdateActiveProxy, line 54: Set active_proxy to currentProxy.String()
SetValue(u) == URLString(u)

\* UpdateActiveProxy, line 62: the payload published on proxy_updates
PublishPayload_Mut(u) == u.Host
PublishPayload(u) == URLString(u)

\* Redis PUBLISH: the payload is appended to the channel of every subscriber
\* connected at that moment; the others never see it
Publish(payload) ==
    [w \in Workers |->
        IF subs[w].on THEN [subs[w] EXCEPT !.ch = Append(@, payload)]
        ELSE subs[w]]

\* ----------------------------------------------------------------- rotator
vars == <<proxies, currentProxy, pmPc, switches, lastSet, activeProxyKey,
          published, subs, currentProxyURL, started, requestCounts, req, resp,
          entryResp, rating, flags, headerRules, engine, stream, delivered,
          pel, mu, handlers, client>>

pmVars == <<proxies, currentProxy, pmPc, switches, lastSet>>
storeVars == <<activeProxyKey, published, subs>>
cacheVars == <<currentProxyURL, started>>
workerVars == <<requestCounts, req, resp>>
entryVars == <<entryResp, rating>>
confVars == <<flags, headerRules>>
queueVars == <<stream, delivered, pel>>
lockVars == <<mu, handlers>>

\* switchProxy, lines 23-34: lock, shuffle in place, move the cursor
SwitchProxy ==
    /\ pmPc = "idle"
    /\ \E ps \in Shuffle(proxies) :
          /\ proxies' = ps
          /\ currentProxy' = SwitchCursor(ps)
    /\ pmPc' = "set"
    /\ UNCHANGED <<switches, lastSet, storeVars, cacheVars, workerVars,
                   entryVars, confVars, client, lockVars, engine, queueVars>>

\* UpdateActiveProxy, lines 54-59: the Set; an error is logged, nothing else
UpdateActiveProxySet ==
    /\ pmPc = "set"
    /\ \E up \in BOOLEAN :
          /\ activeProxyKey' = IF up THEN SetValue(currentProxy)
                                     ELSE activeProxyKey
          /\ lastSet' = IF up THEN "ok" ELSE "err"
    /\ pmPc' = "publish"
    /\ UNCHANGED <<proxies, currentProxy, switches, published, subs, cacheVars,
                   workerVars, entryVars, confVars, client, lockVars, engine, queueVars>>

\* UpdateActiveProxy, lines 62-65: the Publish, then switchProxy returns and
\* pm.mu is released
UpdateActiveProxyPublish ==
    /\ pmPc = "publish"
    /\ \E up \in BOOLEAN :
          /\ subs' = IF up THEN Publish(PublishPayload(currentProxy)) ELSE subs
          /\ published' = IF up
                          THEN Append(published, PublishPayload(currentProxy))
                          ELSE published
    /\ pmPc' = "idle"
    /\ switches' = switches + 1
    /\ UNCHANGED <<proxies, currentProxy, lastSet, activeProxyKey, cacheVars,
                   workerVars, entryVars, confVars, client, lockVars, engine, queueVars>>

\* GetProxy: the cursor, read under pm.mu
GetProxy == currentProxy

\* StartProxyServer, line 271: the URL a worker assumes when its start-up
\* read of active_proxy fails
DefaultActiveProxy == "https://localhost"

\* -------------------------------------------------------------- subscriber
\* StartProxyServer, lines 268-273: the start-up value of the cache, from the
\* Get of active_proxy
StartupActiveProxy(up) ==
    IF GetErr(up) THEN DefaultActiveProxy ELSE activeProxyKey

\* StartProxyServer, lines 268-273 and 352-360: the start-up read of
\* active_proxy and the subscription to proxy_updates
StartProxyServer(w) ==
    /\ ~started[w]
    /\ started' = [started EXCEPT ![w] = TRUE]
    /\ \E up \in BOOLEAN : currentProxyURL' = StartupActiveProxy(up)
    /\ subs' = [subs EXCEPT ![w].on = TRUE]
    /\ UNCHANGED <<pmVars, activeProxyKey, published, workerVars, entryVars,
                   confVars, client, lockVars, engine, queueVars>>

OnUpdate_Mut(payload) == currentProxyURL
\* lines 356-359: the cache after a message
OnUpdate(payload) == payload

\* lines 356-359: one message taken from pubsub.Channel()
ReceiveUpdate(w) ==
    /\ subs[w].ch # <<>>
    /\ currentProxyURL' = OnUpdate(Head(subs[w].ch))
    /\ subs' = [subs EXCEPT ![w].ch = Tail(@)]
    /\ UNCHANGED <<pmVars, activeProxyKey, published, started, workerVars,
                   entryVars, confVars, client, lockVars, engine, queueVars>>

\* ------------------------------------------------------------- entry point
\* A request URI is its path, kept as the sequence of its segments:
\* <<"api", "x">> is /api/x
RECURSIVE RequestURI(_)
RequestURI(segs) ==
    IF segs = <<>> THEN "" ELSE "/" \o Head(segs) \o RequestURI(Tail(segs))

\* strings.HasPrefix(r.URL.Path, "/api/")
IsAPIPath(segs) == Len(segs) >= 2 /\ segs[1] = "api"

\* main, line 668: the key of the rating is the request's RemoteAddr
RatingKey(addr) == addr

\* SuspiciousRating.UpdateRating(ip, delta): an increment of the stored rating
UpdateRating(rt, ip, delta) == [rt EXCEPT ![ip] = @ + delta]

\* SuspiciousRating.GetRating(ip)
GetRating(rt, ip) == rt[ip]

\* main, lines 669-671: the rating after the attack bonus
RatingAfterDetect(ip, attack) ==
    IF attack THEN UpdateRating(rating, ip, 5) ELSE rating

\* main, lines 687-688: the status and the target of the redirect
EntryStatus == 307
EntryTarget_Mut(uri) == URLString(GetProxy)
EntryTarget(uri) == URLString(GetProxy) \o RequestURI(uri)

\* A response of the entry point.  by: who wrote it ("acl" and "api" are
\* collaborators whose status the model does not know, written 0); seen: the
\* store as it was when the request was answered.
EntryReply(by, status, uri, location) ==
    [by |-> by, status |-> status, uri |-> uri, location |-> location,
     seen |-> [active |-> activeProxyKey, lastSet |-> lastSet,
               switches |-> switches]]

NoEntryResp == [by |-> "none", status |-> 0]

\* main, lines 652-689: the handler of "/" on the public listener.  aclHandled
\* is the result of HandleRequestWithACL, attack that of DetectAttack.
EntryRequest(ip, uri, aclHandled, attack) ==
    /\ pmPc = "idle"
    /\ IF flags.acl /\ aclHandled
         THEN /\ entryResp' = EntryReply("acl", 0, uri, "")
              /\ UNCHANGED rating
       ELSE IF IsAPIPath(uri)
         THEN /\ entryResp' = IF flags.api THEN EntryReply("api", 0, uri, "")
                                           ELSE EntryReply("entry", 404, uri, "")
              /\ UNCHANGED rating
       ELSE IF flags.detection
                 /\ GetRating(RatingAfterDetect(ip, attack), ip) > MaxSuspicion
         THEN /\ entryResp' = EntryReply("entry", 403, uri, "")
              /\ rating' = RatingAfterDetect(ip, attack)
       ELSE /\ entryResp' = IF GetProxy = NoURL
                            THEN EntryReply("entry", 503, uri, "")
                            ELSE EntryReply("entry", EntryStatus, uri,
                                            EntryTarget(uri))
            /\ rating' = IF flags.detection
                         THEN UpdateRating(RatingAfterDetect(ip, attack), ip, 1)
                         ELSE rating
    /\ UNCHANGED <<pmVars, storeVars, cacheVars, workerVars, confVars, client, lockVars, engine,
                   queueVars>>

\* ---------------------------------------------------------- directive queue
NoMsg == [block |-> "", redirect |-> NoURL]

Min(a, b) == IF a < b THEN a ELSE b

\* XReadGroup(proxy_group, consumer, ">", count), lines 201-207: the first
\* count entries never delivered to the group
XReadGroup(count) ==
    SubSeq(stream, delivered + 1, Min(Len(stream), delivered + count))

\* Queue.ConsumeFromQueue(consumer, count, block): the same read, for
\* another consumer of the same stream and group
ConsumeFromQueue(count) == XReadGroup(count)

\* the entries a read has returned become pending for its consumer
Pending(consumer, msgs) ==
    [i \in 1..Len(msgs) |-> [consumer |-> consumer, msg |-> msgs[i]]]

\* proxy.Director, lines 213-225: the upstream URL after one message; target
\* is the URL the default director has set
Directed(target, msg) ==
    LET blocked == IF msg.block = "true"
                   THEN [target EXCEPT !.Host = ""] ELSE target
    IN  IF msg.redirect # NoURL THEN msg.redirect ELSE blocked

\* ------------------------------------------------------------ proxy worker
NoReq == [pc |-> "none"]
Backend == [Scheme |-> "http", Host |-> "127.0.0.1:5000"]
Html403 == <<"<html>", "403", "</html>">>
TextHtml == <<"text/html">>
TextPlain == <<"text/plain">>

\* gzipMiddleware, lines 99-108: the header it sets before the handler runs
MiddlewareHeader(r) ==
    IF AcceptsGzip(r.ae) THEN HeaderSet(EmptyHeader, "Content-Encoding", GzipStr)
    ELSE EmptyHeader

\* gzipResponseWriter.Write, lines 117-119: what reaches the client of the
\* bytes a handler writes
MiddlewareBody(r, b) == IF AcceptsGzip(r.ae) THEN Gzip(b) ELSE b

\* A response of a worker.  cause names the branch of the handler that wrote
\* it; active is the value of active_proxy the handler read ("" if none);
\* upstream is the body the backend received and backend the body it sent;
\* directive and xread are what the director's stream read returned.
Reply(r, cause, active, status, location, ctype, body) ==
    [r |-> r, cause |-> cause, active |-> active, status |-> status,
     location |-> location,
     header |-> HeaderSet(MiddlewareHeader(r), "Content-Type", ctype),
     body |-> MiddlewareBody(r, body),
     forwarded |-> FALSE, upstream |-> <<>>, backend |-> <<>>,
     directive |-> NoMsg, xread |-> "", verdict |-> ""]

WithVerdict(x, v) == [x EXCEPT !.verdict = v]

NoWorkerResp == [status |-> 0, forwarded |-> FALSE, cause |-> ""]

\* handler, lines 288-289: the key of the rate counter
RateKey(r) == r.addr

\* handler, line 291
OverLimit_Mut(n) == n > RateLimit + 1
OverLimit(n) == n > RateLimit

\* handler, lines 285-297: lock mu, count the request, refuse above 500
Admit(w, r) ==
    /\ started[w]
    /\ req[w] = NoReq
    /\ requestCounts' = [requestCounts EXCEPT ![w][RateKey(r)] = @ + 1]
    /\ IF OverLimit(requestCounts'[w][RateKey(r)])
         THEN /\ resp' = [resp EXCEPT ![w] =
                     Reply(r, "rate", "", 429, "", TextPlain,
                           <<"Too Many Requests">>)]
              /\ UNCHANGED req
         ELSE /\ req' = [req EXCEPT ![w] = [pc |-> "active", r |-> r, active |-> "",
                                               verdict |-> ""]]
              /\ resp' = [resp EXCEPT ![w] = NoWorkerResp]
    /\ UNCHANGED <<pmVars, storeVars, cacheVars, entryVars, confVars, client, lockVars, engine,
                   queueVars>>

\* handler, line 307: the worker sheds the request
Sheds_Mut(r, active) == "https://" \o r.host = active
Sheds(r, active) == "https://" \o r.host # active

\* handler, lines 308-309: the shedding redirect
ShedReply(r, active) ==
    Reply(r, "shed", active, 302, active \o RequestURI(r.uri), TextHtml,
          <<"Found">>)

\* handler, line 299: the value redisClient.Get returns for active_proxy
ActiveProxyRead_Mut == currentProxyURL
ActiveProxyRead == activeProxyKey

\* handler, lines 299-319: read active_proxy, shed or go on, buffer the body
ConfirmActive(w) ==
    /\ req[w].pc = "active"
    /\ \E up \in BOOLEAN :
        LET r == req[w].r
            done(x) == /\ resp' = [resp EXCEPT ![w] = x]
                       /\ req' = [req EXCEPT ![w] = NoReq]
        IN  IF GetErr(up)
              THEN done(Reply(r, "store", "", 500, "", TextPlain,
                              <<"Internal Server Error">>))
            ELSE IF Sheds(r, ActiveProxyRead)
              THEN done(ShedReply(r, ActiveProxyRead))
            ELSE IF r.bodyErr
              THEN done(Reply(r, "body", ActiveProxyRead, 500, "", TextPlain,
                              <<"Failed to read request body">>))
            ELSE /\ req' = [req EXCEPT ![w] =
                        [pc |-> IF flags.detection THEN "detect" ELSE "forward",
                         r |-> r, active |-> ActiveProxyRead, verdict |-> ""]]
                 /\ UNCHANGED resp
    /\ UNCHANGED <<pmVars, storeVars, cacheVars, requestCounts, entryVars,
                   confVars, client, lockVars, engine, queueVars>>

\* handler, line 334
IsMalicious_Mut(verdict) == FALSE
IsMalicious(verdict) == verdict = "MALICIOUS"

\* handler, lines 335-345: the answer to a malicious request; pageOk: 403.html
\* can be read
MaliciousReply(r, active, pageOk) ==
    IF pageOk
    THEN Reply(r, "malicious", active, 403, "", TextHtml, Html403)
    ELSE Reply(r, "page", active, 500, "", TextPlain,
               <<"Failed to load 403 page">>)

\* the detection client: what the call returns for each outcome of the
\* exchange with the classifier; "error" stands for a non-nil err
sendToDetectionService(outcome) ==
    IF outcome \in {"network", "timeout"} THEN "error" ELSE outcome

\* handler, line 328: err != nil
DetectFailed_Mut(verdict) == FALSE
DetectFailed(verdict) == verdict = "error"

\* handler, lines 321-347: the detection consult.  verdict is what
\* sendToDetectionService returns ("error": the call failed).
Detect(w, verdict, pageOk) ==
    /\ req[w].pc = "detect"
    /\ LET r == req[w].r
           a == req[w].active
       IN  IF DetectFailed(verdict)
             THEN /\ resp' = [resp EXCEPT ![w] = WithVerdict(
                         Reply(r, "detect", a, 500, "", TextPlain,
                               <<"Failed to connect to detection service">>),
                         verdict)]
                  /\ req' = [req EXCEPT ![w] = NoReq]
           ELSE IF IsMalicious(verdict)
             THEN /\ resp' = [resp EXCEPT ![w] =
                         WithVerdict(MaliciousReply(r, a, pageOk), verdict)]
                  /\ req' = [req EXCEPT ![w] = NoReq]
           ELSE /\ req' = [req EXCEPT ![w] =
                       [pc |-> "forward", r |-> r, active |-> a,
                        verdict |-> verdict]]
                /\ UNCHANGED resp
    /\ UNCHANGED <<pmVars, storeVars, cacheVars, requestCounts, entryVars,
                   confVars, client, lockVars, engine, queueVars>>

\* proxy.ModifyResponse, lines 232-253: the gzip re-encoding of the backend's
\* response (h: its header after the rules, b: its body)
ModifyHeader(r, h) ==
    IF AcceptsGzip(r.ae)
    THEN HeaderDel(HeaderSet(h, "Content-Encoding", GzipStr), "Content-Length")
    ELSE h

ModifyBody(r, b) == IF AcceptsGzip(r.ae) THEN Gzip(b) ELSE b

\* httputil.ReverseProxy.ServeHTTP: copyHeader adds every value of the
\* response to the header of the ResponseWriter, which holds what the
\* middleware has set
CopyHeader(dst, src) == [n \in HeaderNames |-> dst[n] \o src[n]]

\* The director's stream read, lines 201-211: nothing without -queue-system;
\* an error (up = FALSE, or no entry within 10 ms) ends the director
DirectorRead(up) ==
    IF flags.queue /\ up THEN XReadGroup(1) ELSE <<>>

DirectorOutcome(up) ==
    IF ~flags.queue THEN ""
    ELSE IF ~up THEN "error"
    ELSE IF XReadGroup(1) = <<>> THEN "empty" ELSE "message"

\* handler, line 349: proxy.ServeHTTP, with the director (lines 197-226), the
\* transport and ModifyResponse (lines 229-256).  up: Redis answers the
\* XReadGroup; bresp: the upstream's response, status 0 when it cannot be
\* reached.
Forward(w, up, bresp) ==
    /\ req[w].pc = "forward"
    /\ LET r == req[w].r
           msgs == DirectorRead(up)
           msg == IF msgs = <<>> THEN NoMsg ELSE msgs[1]
           url == IF msgs = <<>> THEN Backend ELSE Directed(Backend, msg)
           ar == applyHeaderRules(headerRules, bresp.header)
           base == [r |-> r, cause |-> "upstream", active |-> req[w].active,
                    status |-> 502, location |-> "",
                    header |-> MiddlewareHeader(r),
                    body |-> MiddlewareBody(r, <<>>), forwarded |-> FALSE,
                    upstream |-> <<>>, backend |-> <<>>, directive |-> msg,
                    xread |-> DirectorOutcome(up), verdict |-> req[w].verdict]
       IN  /\ delivered' = delivered + Len(msgs)
           /\ pel' = pel \o Pending("proxy_consumer", msgs)
           /\ resp' = [resp EXCEPT ![w] =
                 IF url.Host = "" \/ bresp.status = 0
                   THEN base
                 ELSE IF ar.panic
                   THEN [base EXCEPT !.cause = "panic", !.status = 0,
                                     !.forwarded = TRUE, !.upstream = r.body,
                                     !.backend = bresp.body]
                 ELSE [base EXCEPT
                         !.cause = "ok",
                         !.status = bresp.status,
                         !.header = CopyHeader(MiddlewareHeader(r),
                                               ModifyHeader(r, ar.header)),
                         !.body = MiddlewareBody(r, ModifyBody(r, bresp.body)),
                         !.forwarded = TRUE,
                         !.upstream = r.body,
                         !.backend = bresp.body]]
    /\ req' = [req EXCEPT ![w] = NoReq]
    /\ UNCHANGED <<pmVars, storeVars, cacheVars, requestCounts, entryVars,
                   confVars, client, lockVars, engine, stream>>

\* ------------------------------------------- handler goroutines and mu
\* net/http runs the handler of every request in a goroutine of its own.
\* The position of a goroutine in the handler: "none" (no request), "lock"
\* (at mu.Lock), "count" (lines 288-291), "active" (lines 299-347),
\* "forward" (line 349), "return" (response written, deferred Unlock due);
\* forwarded: proxy.ServeHTTP has served the request.
Goroutines == 1..MaxHandlers
IdleHandler ==
    [pc |-> "none", addr |-> [ip |-> "10.0.0.5", port |-> 40001],
     forwarded |-> FALSE]

\* sync.Mutex.Lock returns only when no goroutine holds the mutex
TryLock_Mut(holder) == TRUE
TryLock(holder) == holder = 0

\* the handler is entered, lines 275-284
HandlerEnter(w, g, addr) ==
    /\ started[w]
    /\ handlers[w][g].pc = "none"
    /\ handlers' = [handlers EXCEPT ![w][g] =
          [pc |-> "lock", addr |-> addr, forwarded |-> FALSE]]
    /\ UNCHANGED <<pmVars, storeVars, cacheVars, workerVars, entryVars,
                   confVars, client, engine, queueVars, mu>>

\* line 285: mu.Lock()
HandlerLock(w, g) ==
    /\ handlers[w][g].pc = "lock"
    /\ TryLock(mu[w])
    /\ mu' = [mu EXCEPT ![w] = g]
    /\ handlers' = [handlers EXCEPT ![w][g].pc = "count"]
    /\ UNCHANGED <<pmVars, storeVars, cacheVars, workerVars, entryVars,
                   confVars, client, engine, queueVars>>

\* lines 288-297: the counter is incremented and compared
HandlerCount(w, g) ==
    /\ handlers[w][g].pc = "count"
    /\ requestCounts' =
          [requestCounts EXCEPT ![w][handlers[w][g].addr] = @ + 1]
    /\ handlers' = [handlers EXCEPT ![w][g].pc =
          IF OverLimit(requestCounts'[w][handlers[w][g].addr])
          THEN "return" ELSE "active"]
    /\ UNCHANGED <<pmVars, storeVars, cacheVars, req, resp, entryVars,
                   confVars, client, engine, queueVars, mu>>

\* lines 299-347: the steps up to proxy.ServeHTTP; answered: one of them
\* has written the response
HandlerPipeline(w, g, answered) ==
    /\ handlers[w][g].pc = "active"
    /\ handlers' = [handlers EXCEPT ![w][g].pc =
          IF answered THEN "return" ELSE "forward"]
    /\ UNCHANGED <<pmVars, storeVars, cacheVars, workerVars, entryVars,
                   confVars, client, engine, queueVars, mu>>

\* line 349: proxy.ServeHTTP has returned
HandlerForward(w, g) ==
    /\ handlers[w][g].pc = "forward"
    /\ handlers' = [handlers EXCEPT ![w][g].pc = "return",
                                    ![w][g].forwarded = TRUE]
    /\ UNCHANGED <<pmVars, storeVars, cacheVars, workerVars, entryVars,
                   confVars, client, engine, queueVars, mu>>

\* line 286: the deferred mu.Unlock() runs as the handler returns
HandlerReturn(w, g) ==
    /\ handlers[w][g].pc = "return"
    /\ mu' = [mu EXCEPT ![w] = 0]
    /\ handlers' = [handlers EXCEPT ![w][g] = IdleHandler]
    /\ UNCHANGED <<pmVars, storeVars, cacheVars, workerVars, entryVars,
                   confVars, client, engine, queueVars>>

\* ------------------------------------------------------ directive stream
\* an operator appends a directive to proxy_requests (XADD)
AppendDirective(msg) ==
    /\ flags.queue
    /\ stream' = Append(stream, msg)
    /\ UNCHANGED <<pmVars, storeVars, cacheVars, workerVars, entryVars,
                   confVars, client, lockVars, engine, delivered, pel>>

\* startConsumers, lines 715-729: consumer1 reads up to 10 entries and
\* acknowledges each; acked: Redis answers the XAck
StartConsumers(acked) ==
    /\ flags.queue
    /\ ConsumeFromQueue(10) # <<>>
    /\ delivered' = delivered + Len(ConsumeFromQueue(10))
    /\ pel' = IF acked THEN pel
              ELSE pel \o Pending("consumer1", ConsumeFromQueue(10))
    /\ UNCHANGED <<pmVars, storeVars, cacheVars, workerVars, entryVars,
                   confVars, client, lockVars, engine, stream>>

\* ------------------------------------------------- header engine, applied
\* a response header the engine has not touched yet; first keeps the header
\* as the first pass leaves it
NewEngine(h) == [header |-> h, panic |-> FALSE, passes |-> 0, first |-> h]

\* ModifyResponse, line 230: applyHeaderRules(resp) on a response header
ApplyHeaderRules ==
    /\ ~engine.panic
    /\ engine.passes < 2
    /\ engine' = [header |-> applyHeaderRules(headerRules, engine.header).header,
                  panic |-> applyHeaderRules(headerRules, engine.header).panic,
                  passes |-> engine.passes + 1,
                  first |-> IF engine.passes = 0
                            THEN applyHeaderRules(headerRules, engine.header).header
                            ELSE engine.first]
    /\ UNCHANGED <<pmVars, storeVars, cacheVars, workerVars, entryVars,
                   confVars, client, lockVars, queueVars>>

\* ------------------------------------------------------------ environment
IPs == {"10.0.0.5"}
\* r.RemoteAddr is "IP:port": two connections of one source differ in port
Addr(ip, port) == [ip |-> ip, port |-> port]
Addrs == { Addr(ip, port) : ip \in IPs, port \in {40001, 40002} }
Conn == Addr("10.0.0.5", 40001)
Hosts == { WorkerHost(i) : i \in Workers }

Request(addr, host, uri, ae, body, bodyErr) ==
    [addr |-> addr, host |-> host, uri |-> uri, ae |-> ae, body |-> body,
     bodyErr |-> bodyErr]

\* the backend's answers: none (it cannot be reached), or a page
NoAnswer == [status |-> 0, header |-> EmptyHeader, body |-> <<>>]
Page == [status |-> 200,
         header |-> HeaderSet(HeaderSet(EmptyHeader, "Content-Length", <<"2">>),
                              "Content-Type", TextHtml),
         body |-> <<"p", "q">>]

\* a header rule of the configuration file (HeaderRule)
Rule(action, header, value, regex, replacement) ==
    [Action |-> action, Header |-> header, Value |-> value, Regex |-> regex,
     Replacement |-> replacement]

\* the directives an operator appends
BlockDirective == [block |-> "true", redirect |-> NoURL]
RedirectDirective ==
    [block |-> "", redirect |-> [Scheme |-> "http", Host |-> "other:9000"]]
BlockRedirectDirective == [RedirectDirective EXCEPT !.block = "true"]
Directives == {BlockDirective, RedirectDirective, BlockRedirectDirective}

Flags(detection, queue) ==
    [detection |-> detection, queue |-> queue, api |-> FALSE, acl |-> TRUE]

\* An HTTP client that follows redirects, one request at a time.  at: whom
\* its next request goes to ("entry", "worker", or "done": it has a final
\* answer); location: the Location it follows; redirects: the redirects it
\* has received; visited: the workers that answered it, with their answers.
NewClient ==
    [at |-> "entry", location |-> "", redirects |-> 0, visited |-> <<>>,
     status |-> 0]

\* the workers whose listener the URL of a Location header addresses
Addressed(location, uri) ==
    { w \in Workers : location = URLString(ProxyURL(w)) \o RequestURI(uri) }

\* the client receives the response of the entry point, lines 687-688: it
\* follows a 307
ClientReadEntry ==
    /\ client.at = "entry"
    /\ entryResp # NoEntryResp
    /\ client' = IF entryResp.status = EntryStatus
                 THEN [client EXCEPT !.at = "worker",
                                     !.location = entryResp.location,
                                     !.redirects = @ + 1]
                 ELSE [client EXCEPT !.at = "done",
                                     !.status = entryResp.status]
    /\ UNCHANGED <<pmVars, storeVars, cacheVars, workerVars, entryVars,
                   confVars, lockVars, engine, queueVars>>

\* the client receives the response of worker w, lines 308-309 and 349: it
\* follows a 302, any other answer is final
ClientReadWorker(w, uri) ==
    /\ client.at = "worker"
    /\ w \in Addressed(client.location, uri)
    /\ req[w] = NoReq
    /\ resp[w] # NoWorkerResp
    /\ LET answer == [worker |-> w, status |-> resp[w].status,
                      forwarded |-> resp[w].forwarded]
       IN  client' = IF resp[w].status = 302
                     THEN [client EXCEPT !.location = resp[w].location,
                                         !.redirects = @ + 1,
                                         !.visited = Append(@, answer)]
                     ELSE [client EXCEPT !.at = "done",
                                         !.status = resp[w].status,
                                         !.visited = Append(@, answer)]
    /\ resp' = [resp EXCEPT ![w] = NoWorkerResp]
    /\ UNCHANGED <<pmVars, storeVars, cacheVars, requestCounts, req, entryVars,
                   confVars, lockVars, engine, queueVars>>

\* the state main builds: the ProxyManager, empty counters, nothing answered
InitState ==
    /\ proxies = NewProxies
    /\ currentProxy = NewCurrentProxy(NewProxies)
    /\ pmPc = "idle"
    /\ switches = 0
    /\ lastSet = "none"
    /\ activeProxyKey \in StoreInit
    /\ published = <<>>
    /\ requestCounts = [w \in Workers |-> [a \in Addrs |-> 0]]
    /\ req = [w \in Workers |-> NoReq]
    /\ resp = [w \in Workers |-> NoWorkerResp]
    /\ entryResp = NoEntryResp
    /\ rating = [a \in Addrs |-> 0]
    /\ mu = [w \in Workers |-> 0]
    /\ handlers = [w \in Workers |-> [g \in Goroutines |-> IdleHandler]]
    /\ client = NewClient
    /\ stream = <<>>
    /\ delivered = 0
    /\ pel = <<>>

\* before any worker has started
InitProcess ==
    /\ InitState
    /\ engine = NewEngine(EmptyHeader)
    /\ subs = [w \in Workers |-> [on |-> FALSE, ch |-> <<>>]]
    /\ currentProxyURL = ""
    /\ started = [w \in Workers |-> FALSE]

\* once every worker has started (StartProxyServer), before the first tick
InitStarted ==
    /\ InitState
    /\ subs = [w \in Workers |-> [on |-> TRUE, ch |-> <<>>]]
    /\ \E up \in BOOLEAN : currentProxyURL = StartupActiveProxy(up)
    /\ started = [w \in Workers |-> TRUE]

InitServing ==
    /\ InitStarted
    /\ engine = NewEngine(EmptyHeader)

\* ------------------------------------------------- Spec: the control plane
\* The rotator, the subscribers and the public entry point, without
\* -attack-detection.  The workers are
\* started at once by main and the ticker first fires 10 s later: every
\* worker has subscribed before the first switch.
Init ==
    /\ InitProcess
    /\ flags = Flags(FALSE, FALSE)
    /\ headerRules = <<>>

Tick ==
    /\ switches < MaxSwitches
    /\ \A w \in Workers : started[w]
    /\ SwitchProxy

Rotator == Tick \/ UpdateActiveProxySet \/ UpdateActiveProxyPublish

Start == \E w \in Workers : StartProxyServer(w)

Receive == \E w \in Workers : ReceiveUpdate(w)

\* DetectAttack is not called without -attack-detection
Entry ==
    \E uri \in {<<"x">>, <<"api", "x">>}, aclHandled \in BOOLEAN :
        EntryRequest(RatingKey(Conn), uri, aclHandled, FALSE)

Next == Rotator \/ Start \/ Receive \/ Entry

Spec == Init /\ [][Next]_vars

\* The rotator and the subscribers alone.  The subscription goroutines keep
\* running: a message in a channel is eventually received.
NextSubscribers == Rotator \/ Start \/ Receive

FairSpec ==
    /\ Init
    /\ [][NextSubscribers]_vars
    /\ \A w \in Workers : WF_vars(ReceiveUpdate(w))

\* ------------------------------------------- SpecRate: the rate limiter
\* One worker, started, serving one source IP over two connections: the
\* first sends as many requests as the counter admits and two more, the
\* second a few.  The store keeps the record it holds at start.
InitRate ==
    /\ InitServing
    /\ flags = Flags(FALSE, FALSE)
    /\ headerRules = <<>>

AdmitRate ==
    \E addr \in Addrs, host \in Hosts :
        /\ requestCounts[1][addr] <= RateLimit + 1
        /\ addr.port # 40001 => requestCounts[1][addr] < MaxRequests
        /\ Admit(1, Request(addr, host, <<"x">>, <<>>, <<>>, FALSE))

ForwardRate == \E bresp \in {NoAnswer, Page} : Forward(1, TRUE, bresp)

NextRate == AdmitRate \/ ConfirmActive(1) \/ ForwardRate

SpecRate == InitRate /\ [][NextRate]_vars

\* ---------------------------------------- SpecWorker: the request pipeline
\* One worker, started, serving requests of one connection through the
\* whole handler, with and without detection and header rules.
WorkerRules ==
    { <<>>,
      <<Rule("set-header", "X-A", <<"a">>, <<>>, <<>>)>>,
      <<Rule("replace-header", "Content-Type", <<>>, <<"(">>, <<>>)>> }

InitWorker ==
    /\ InitServing
    /\ \E d \in BOOLEAN : flags = Flags(d, FALSE)
    /\ headerRules \in WorkerRules

AdmitWorker ==
    \E host \in Hosts, ae \in {<<>>, GzipStr}, body \in {<<>>, <<"b">>},
       bodyErr \in BOOLEAN :
        /\ requestCounts[1][Conn] < MaxRequests
        /\ Admit(1, Request(Conn, host, <<"x">>, ae, body, bodyErr))

DetectWorker ==
    \E outcome \in {"MALICIOUS", "BENIGN", "network", "timeout"},
       pageOk \in BOOLEAN :
        Detect(1, sendToDetectionService(outcome), pageOk)

ForwardWorker == \E bresp \in {NoAnswer, Page} : Forward(1, TRUE, bresp)

NextWorker == AdmitWorker \/ ConfirmActive(1) \/ DetectWorker \/ ForwardWorker

SpecWorker == InitWorker /\ [][NextWorker]_vars

\* --------------------------------------- SpecQueue: the directive stream
\* One worker with -queue-system: an operator appends directives, the
\* director of a forwarded request and the background consumer both read the
\* stream in group proxy_group.
MaxDirectives == 2

InitQueue ==
    /\ InitServing
    /\ flags = Flags(FALSE, TRUE)
    /\ headerRules = <<>>

AppendQueue ==
    \E msg \in Directives :
        /\ Len(stream) < MaxDirectives
        /\ AppendDirective(msg)

ConsumeQueue == \E acked \in BOOLEAN : StartConsumers(acked)

AdmitQueue ==
    \E host \in Hosts :
        /\ requestCounts[1][Conn] < MaxRequests
        /\ Admit(1, Request(Conn, host, <<"x">>, <<>>, <<>>, FALSE))

ForwardQueue ==
    \E up \in BOOLEAN, bresp \in {NoAnswer, Page} : Forward(1, up, bresp)

NextQueue ==
    AppendQueue \/ ConsumeQueue \/ AdmitQueue \/ ConfirmActive(1) \/ ForwardQueue

SpecQueue == InitQueue /\ [][NextQueue]_vars

\* ------------------------------------- SpecHeaders: the header-rule engine
\* applyHeaderRules as a function: every rule list of at most MaxRules rules
\* over the rules below, applied twice to a response header.
MaxRules == 2

RuleSet ==
    { Rule("add-header", "X-A", <<"a">>, <<>>, <<>>),
      Rule("set-header", "X-A", <<"a">>, <<>>, <<>>),
      Rule("del-header", "X-A", <<>>, <<>>, <<>>),
      Rule("replace-header", "X-A", <<>>, <<"a", "a">>, <<"a">>),
      Rule("replace-header", "X-A", <<>>, <<"a">>, <<"a">>),
      Rule("replace-header", "X-A", <<>>, <<"a">>, <<"b">>),
      Rule("replace-header", "X-A", <<>>, <<"a", "b">>, <<"a">>),
      Rule("replace-header", "X-A", <<>>, <<>>, <<"b">>),
      Rule("replace-header", "X-A", <<>>, <<"(">>, <<"b">>) }

RuleLists == UNION { [1..n -> RuleSet] : n \in 0..MaxRules }

HeaderInputs ==
    { HeaderSet(EmptyHeader, "Content-Type", TextHtml) } \cup
    { HeaderSet(EmptyHeader, "X-A", v) :
        v \in { <<"a", "a", "a", "a">>, <<"a", "a", "b", "b">>, <<"b">> } }

InitHeaders ==
    /\ InitStarted
    /\ flags = Flags(FALSE, FALSE)
    /\ headerRules \in RuleLists
    /\ \E h \in HeaderInputs : engine = NewEngine(h)

NextHeaders == ApplyHeaderRules

SpecHeaders == InitHeaders /\ [][NextHeaders]_vars

\* ------------------------------- SpecSuspicion: the suspicion rating
\* -attack-detection on: the entry point rates the requests of one source IP
\* over two connections, and the same connections reach worker 1 directly.
MaxRating == 24

InitSuspicion ==
    /\ InitServing
    /\ flags = Flags(TRUE, FALSE)
    /\ headerRules = <<>>

EntrySuspicion ==
    \E addr \in Addrs, attack \in BOOLEAN :
        /\ rating[RatingKey(addr)] < MaxRating
        /\ addr # Conn => rating[RatingKey(addr)] < MaxRequests
        /\ EntryRequest(RatingKey(addr), <<"x">>, FALSE, attack)

AdmitSuspicion ==
    \E addr \in Addrs :
        /\ requestCounts[1][addr] < MaxRequests
        /\ Admit(1, Request(addr, WorkerHost(1), <<"x">>, <<>>, <<>>, FALSE))

DetectSuspicion ==
    \E verdict \in {"MALICIOUS", "BENIGN"} : Detect(1, verdict, TRUE)

ForwardSuspicion == Forward(1, TRUE, Page)

NextSuspicion ==
    \/ EntrySuspicion
    \/ AdmitSuspicion
    \/ ConfirmActive(1)
    \/ DetectSuspicion
    \/ ForwardSuspicion

SpecSuspicion == InitSuspicion /\ [][NextSuspicion]_vars

\* ------------------------------------ SpecMutex: concurrent handlers
\* The handler goroutines of worker 1, each serving requests of one of the
\* two connections.
InitMutex ==
    /\ InitServing
    /\ flags = Flags(FALSE, FALSE)
    /\ headerRules = <<>>

EnterMutex ==
    \E g \in Goroutines, addr \in Addrs :
        /\ requestCounts[1][addr] < MaxRequests
        /\ HandlerEnter(1, g, addr)

LockMutex == \E g \in Goroutines : HandlerLock(1, g)

CountMutex == \E g \in Goroutines : HandlerCount(1, g)

PipelineMutex ==
    \E g \in Goroutines, answered \in BOOLEAN :
        HandlerPipeline(1, g, answered)

ForwardMutex == \E g \in Goroutines : HandlerForward(1, g)

ReturnMutex == \E g \in Goroutines : HandlerReturn(1, g)

NextMutex ==
    \/ EnterMutex
    \/ LockMutex
    \/ CountMutex
    \/ PipelineMutex
    \/ ForwardMutex
    \/ ReturnMutex

SpecMutex == InitMutex /\ [][NextMutex]_vars

\* ------------------------------- SpecSwitch: a worker racing the rotator
\* Worker 1 serves requests while the rotator switches and the subscribers
\* receive the updates.
InitSwitch ==
    /\ InitServing
    /\ flags = Flags(FALSE, FALSE)
    /\ headerRules = <<>>

TickSwitch == switches < MaxSwitches /\ SwitchProxy

AdmitSwitch ==
    \E host \in Hosts :
        /\ requestCounts[1][Conn] < MaxRequests
        /\ Admit(1, Request(Conn, host, <<"x">>, <<>>, <<>>, FALSE))

ForwardSwitch == Forward(1, TRUE, Page)

NextSwitch ==
    \/ TickSwitch
    \/ UpdateActiveProxySet
    \/ UpdateActiveProxyPublish
    \/ Receive
    \/ AdmitSwitch
    \/ ConfirmActive(1)
    \/ ForwardSwitch

SpecSwitch == InitSwitch /\ [][NextSwitch]_vars

\* ------------------------------------- SpecClient: a chain of redirects
\* The rotator runs until a client sends a request to the entry point; from
\* then on no rotation occurs and the client follows every redirect it is
\* given, up to MaxRedirects.  The backend answers every request it gets.
MaxRedirects == 3

ClientURI == <<"x">>

InitClient ==
    /\ InitServing
    /\ flags = Flags(FALSE, FALSE)
    /\ headerRules = <<>>

RotateClient ==
    /\ entryResp = NoEntryResp
    /\ \/ switches < MaxSwitches /\ SwitchProxy
       \/ UpdateActiveProxySet
       \/ UpdateActiveProxyPublish
       \/ Receive

EntryClient ==
    /\ entryResp = NoEntryResp
    /\ EntryRequest(RatingKey(Conn), ClientURI, FALSE, FALSE)

SendClient ==
    \E w \in Addressed(client.location, ClientURI) :
        /\ client.at = "worker"
        /\ client.redirects <= MaxRedirects
        /\ req[w] = NoReq
        /\ resp[w] = NoWorkerResp
        /\ Admit(w, Request(Conn, WorkerHost(w), ClientURI, <<>>, <<>>, FALSE))

ServeClient ==
    \E w \in Workers : ConfirmActive(w) \/ Forward(w, TRUE, Page)

ReadClient ==
    ClientReadEntry \/ \E w \in Workers : ClientReadWorker(w, ClientURI)

NextClient ==
    RotateClient \/ EntryClient \/ SendClient \/ ServeClient \/ ReadClient

SpecClient == InitClient /\ [][NextClient]_vars

\* ----------------------------------------------------- claims of Spec
Range(s) == { s[i] : i \in 1..Len(s) }
Count(s, x) == Cardinality({ i \in 1..Len(s) : s[i] = x })
IsPermutation(s, t) ==
    /\ Len(s) = Len(t)
    /\ \A x \in Range(s) \cup Range(t) : Count(s, x) = Count(t, x)
Last(s) == s[Len(s)]

\* C2, as claimed: between two rotations the active_proxy record equals the
\* endpoint the earlier rotation chose (the cursor).
C2_RecordEqualsCursor ==
    (switches >= 1 /\ pmPc = "idle") => activeProxyKey = URLString(currentProxy)

\* C2, amended: a rotation whose Set succeeded leaves the record equal to the
\* endpoint it chose, the cursor, which is the head of the sequence; the
\* record changes at no other moment, so a rotation whose Set failed leaves
\* the record as it was.
C2_RecordFollowsSuccessfulSet ==
    [][/\ (lastSet' = "ok" /\ pmPc' # "set")
            => /\ activeProxyKey' = URLString(currentProxy')
               /\ currentProxy' = proxies'[1]
       /\ activeProxyKey' # activeProxyKey => (pmPc = "set" /\ lastSet' = "ok")
      ]_vars

C2_Witness ==
    /\ switches >= 2
    /\ pmPc = "idle"
    /\ lastSet = "ok"
    /\ currentProxy # NewCurrentProxy(NewProxies)
    /\ activeProxyKey = URLString(currentProxy)

\* C3: the endpoint sequence is never empty, is a permutation of the
\* endpoints registered at startup, and holds the cursor.
C3_RegistryInvariant ==
    /\ Len(proxies) >= 1
    /\ IsPermutation(proxies, NewProxies)
    /\ currentProxy \in Range(proxies)

C3_Witness ==
    /\ switches >= 1
    /\ proxies # NewProxies
    /\ currentProxy = proxies[1]

AllDelivered == \A w \in Workers : subs[w].ch = <<>>
Received(w) == Len(published) - Len(subs[w].ch)

C7_SubscribersConverge ==
    /\ []((AllDelivered /\ published # <<>>)
            => currentProxyURL = Last(published))
    /\ \A w \in Workers : \A k \in 1..MaxSwitches :
          (Len(published) >= k) ~> (Received(w) >= k)

C7_Witness ==
    /\ Len(published) >= 2
    /\ published[1] # published[2]
    /\ AllDelivered
    /\ currentProxyURL = Last(published)

\* C15, as claimed: every rotation publishes exactly one message, and the
\* payload of a message is the active_proxy record at the moment it is
\* published.
C15_PayloadIsRecord ==
    [][/\ switches' = switches + 1 => Len(published') = Len(published) + 1
       /\ published' # published => Last(published') = activeProxyKey]_vars

\* C15, amended: a rotation publishes at most one message, after its Set; the
\* payload is the string form of the cursor the rotation chose, which is the
\* active_proxy record whenever that Set succeeded.
C15_PayloadIsCursor ==
    /\ [](Len(published) <= switches)
    /\ [][/\ activeProxyKey' # activeProxyKey => pmPc = "set"
          /\ published' # published
               => /\ pmPc = "publish"
                  /\ switches' = switches + 1
                  /\ published' = Append(published, URLString(currentProxy))
                  /\ lastSet = "ok" => Last(published') = activeProxyKey]_vars

C15_Witness ==
    /\ switches = 2
    /\ Len(published) = 2
    /\ lastSet = "ok"
    /\ published[2] = activeProxyKey
    /\ published[1] # published[2]

\* ------------------------------------------------- claims of SpecRate
Answered(w) == resp[w].cause # ""

\* requests of a source IP a worker has counted, over all its connections
RECURSIVE SumCounts(_, _)
SumCounts(w, S) ==
    IF S = {} THEN 0
    ELSE LET a == CHOOSE x \in S : TRUE
         IN  requestCounts[w][a] + SumCounts(w, S \ {a})

IPRequests(w, ip) == SumCounts(w, { a \in Addrs : a.ip = ip })

\* C1, as claimed: a worker that reads an active_proxy record different from
\* its own public URL answers with a 3xx redirect to the record followed by
\* the request URI, and does not forward.
C1_ShedsWhenNotActive ==
    \A w \in Workers :
        (/\ Answered(w)
         /\ resp[w].cause # "store"
         /\ activeProxyKey # URLString(ProxyURL(w)))
        => /\ resp[w].status \in 300..399
           /\ resp[w].location = activeProxyKey \o RequestURI(resp[w].r.uri)
           /\ ~resp[w].forwarded

\* C1, amended: a request within the rate limit whose read of active_proxy
\* returns a value different from "https://" + Host is answered 302 with
\* Location that value followed by the request URI, and is not forwarded.
C1_ShedsWhenHostNotActive ==
    \A w \in Workers :
        (/\ Answered(w)
         /\ resp[w].cause \notin {"rate", "store"}
         /\ activeProxyKey # "https://" \o resp[w].r.host)
        => /\ resp[w].status = 302
           /\ resp[w].location = activeProxyKey \o RequestURI(resp[w].r.uri)
           /\ ~resp[w].forwarded

C1_Witness ==
    /\ activeProxyKey = URLString(ProxyURL(2))
    /\ resp[1].cause = "shed"
    /\ resp[1].r.host = WorkerHost(1)
    /\ resp[1].status = 302
    /\ resp[1].location = "https://host:8082/x"
    /\ requestCounts[1][resp[1].r.addr] = RateLimit

\* C17: a request is counted, and refused with 429 above the limit, before
\* active_proxy is read for it: the step that counts it finds no request in
\* the pipeline and either answers 429, whatever the record says, or starts
\* the pipeline with nothing read; the step that reads active_proxy counts
\* nothing, so a request that is shed has been counted.
C17_CountedBeforeActiveRead ==
    /\ [][\A a \in Addrs :
            requestCounts'[1][a] # requestCounts[1][a]
            => /\ requestCounts'[1][a] = requestCounts[1][a] + 1
               /\ req[1] = NoReq
               /\ IF requestCounts'[1][a] > RateLimit
                    THEN /\ req'[1] = NoReq
                         /\ resp'[1].status = 429
                         /\ resp'[1].active = ""
                         /\ ~resp'[1].forwarded
                    ELSE /\ req'[1].pc = "active"
                         /\ req'[1].active = ""]_vars
    /\ [][(req[1].pc = "active" /\ req'[1] # req[1])
          => /\ requestCounts' = requestCounts
             /\ requestCounts[1][req[1].r.addr] >= 1]_vars

\* the 501st request of a connection, sent to a worker that is not active
C17_Witness ==
    /\ resp[1].cause = "rate"
    /\ resp[1].status = 429
    /\ requestCounts[1][resp[1].r.addr] = RateLimit + 1
    /\ activeProxyKey # NoKey
    /\ activeProxyKey # "https://" \o resp[1].r.host

\* C18: with detection enabled a request reaches proxy.ServeHTTP only from
\* a consult that returned without error a verdict other than MALICIOUS, and
\* a consult that failed is answered 500 and is not forwarded.
C18_ForwardOnlyAfterCleanConsult ==
    flags.detection
    => /\ req[1].pc = "forward"
          => req[1].verdict \notin {"", "error", "MALICIOUS"}
       /\ resp[1].forwarded
          => resp[1].verdict \notin {"", "error", "MALICIOUS"}
       /\ (resp[1].cause # "" /\ resp[1].verdict = "error")
          => /\ resp[1].status = 500
             /\ resp[1].cause = "detect"
             /\ ~resp[1].forwarded
             /\ resp[1].upstream = <<>>

\* a consult that failed, answered 500
C18_Witness ==
    /\ flags.detection
    /\ resp[1].cause = "detect"
    /\ resp[1].verdict = "error"
    /\ resp[1].status = 500
    /\ req[1] = NoReq

\* C20, as claimed: when a replace-header rule of the configuration has a
\* regex that does not compile, the rule is skipped and a request the backend
\* answered is delivered with the backend's status: no panic reaches the
\* response.
C20_BadRegexSkipped ==
    (/\ resp[1].forwarded
     /\ \E k \in 1..Len(headerRules) :
            /\ headerRules[k].Action = "replace-header"
            /\ ~RegexCompiles(headerRules[k].Regex))
    => /\ resp[1].cause = "ok"
       /\ resp[1].status = Page.status

\* C21, as claimed: a request whose director has read a directive with
\* block "true" is dispatched with an empty upstream host, so it does not
\* reach any upstream and is answered 502, whatever else the directive
\* carries.
C21_BlockDropsUpstream ==
    (/\ resp[1].cause # ""
     /\ resp[1].directive.block = "true")
    => /\ ~resp[1].forwarded
       /\ resp[1].upstream = <<>>
       /\ resp[1].status = 502

\* C22, as claimed: before the first rotation, whatever the store holds, the
\* worker the entry point's redirect names forwards the request that follows
\* the redirect: it neither answers 5xx nor redirects again.
C22_RedirectTargetForwards ==
    (switches = 0 /\ client.visited # <<>>)
    => /\ client.visited[1].forwarded
       /\ client.visited[1].status = Page.status

\* C23, as claimed: with no rotation during the chain, a client that has its
\* final answer has been served by a worker, after at most two redirects and
\* without visiting a worker twice.
C23_ServedWithinTwoRedirects ==
    client.at = "done"
    => /\ client.redirects <= 2
       /\ \A i, j \in 1..Len(client.visited) :
              client.visited[i].worker = client.visited[j].worker => i = j
       /\ client.visited # <<>>
       /\ Last(client.visited).forwarded

\* C4, as claimed: the (N+1)-th request of a source IP on a worker is
\* answered 429 exactly when N >= 500.
C4_LimitPerSourceIP ==
    \A w \in Workers :
        Answered(w)
        => (resp[w].status = 429
              <=> IPRequests(w, resp[w].r.addr.ip) > RateLimit)

\* ----------------------------------------------- claims of SpecWorker
\* the body a client holds after decoding the Content-Encoding it was told
EntityBody(x) ==
    IF HeaderGet(x.header, "Content-Encoding") = GzipStr
    THEN Gunzip(x.body) ELSE x.body

\* C5, as claimed: with detection enabled, a request the detector classifies
\* MALICIOUS is answered 403 with Content-Type text/html and the contents of
\* 403.html, and is not forwarded.
C5_MaliciousAnswered403 ==
    \A w \in Workers :
        (flags.detection /\ Answered(w) /\ resp[w].verdict = "MALICIOUS")
        => /\ resp[w].status = 403
           /\ HeaderGet(resp[w].header, "Content-Type") = TextHtml
           /\ EntityBody(resp[w]) = Html403
           /\ ~resp[w].forwarded

\* C5, amended: a request classified MALICIOUS is never forwarded; it is
\* answered 403, text/html, with the contents of 403.html when that file can
\* be read, and 500 when it cannot.
C5_MaliciousNeverForwarded ==
    \A w \in Workers :
        (flags.detection /\ Answered(w) /\ resp[w].verdict = "MALICIOUS")
        => /\ ~resp[w].forwarded
           /\ \/ /\ resp[w].cause = "malicious"
                 /\ resp[w].status = 403
                 /\ HeaderGet(resp[w].header, "Content-Type") = TextHtml
                 /\ EntityBody(resp[w]) = Html403
              \/ /\ resp[w].cause = "page"
                 /\ resp[w].status = 500

C5_Witness ==
    /\ flags.detection
    /\ resp[1].cause = "malicious"
    /\ resp[1].verdict = "MALICIOUS"
    /\ resp[1].status = 403
    /\ AcceptsGzip(resp[1].r.ae)
    /\ resp[1].body = Gzip(Html403)
    /\ resp[1].r.body = <<"b">>

\* C9: a request with Accept-Encoding: gzip, forwarded with no header rule
\* and no detection, reaches the backend with its body unchanged, and the
\* response body, decoded once, is the backend's response body.
C9_GzipEncodedOnce ==
    \A w \in Workers :
        (/\ resp[w].cause = "ok"
         /\ AcceptsGzip(resp[w].r.ae)
         /\ headerRules = <<>>
         /\ ~flags.detection)
        => /\ resp[w].upstream = resp[w].r.body
           /\ Gunzip(resp[w].body) = resp[w].backend

\* ------------------------------------------------ claims of SpecQueue
\* C8: once a block directive is the only entry of the stream and no director
\* has read it, the next forwarded request whose stream read succeeds
\* consumes the directive and is answered 502, whatever the background
\* consumer has done in between.
C8_BlockStopsNextForward ==
    [][(/\ stream = <<BlockDirective>>
        /\ \A k \in 1..Len(pel) : pel[k].consumer # "proxy_consumer"
        /\ req[1].pc = "forward"
        /\ req'[1] = NoReq
        /\ resp'[1].xread # "error")
       => /\ resp'[1].directive = BlockDirective
          /\ resp'[1].status = 502]_vars

\* C16: a directive the director has read is acknowledged once it has been
\* inspected: when the forwarding of a request is over, no entry is pending
\* for proxy_consumer (and so the pending list empties once no directive is
\* appended any more).
C16_DirectorAcknowledges ==
    [][(req[1].pc = "forward" /\ req'[1] = NoReq)
       => \A k \in 1..Len(pel') : pel'[k].consumer # "proxy_consumer"]_vars

\* ---------------------------------------------- claims of SpecHeaders
\* no replace-header rule's regex matches its own replacement
NoSelfMatch(rules) ==
    \A k \in 1..Len(rules) :
        (rules[k].Action = "replace-header" /\ rules[k].Regex # <<>>)
        => ~RegexMatches(rules[k].Regex, rules[k].Replacement)

OnlySetDel(rules) ==
    \A k \in 1..Len(rules) : rules[k].Action \in {"set-header", "del-header"}

\* C10, as claimed: the second pass of the engine leaves the header as the
\* first pass made it if and only if no rule's regex matches its own
\* replacement.
C10_IdempotentIffNoSelfMatch ==
    engine.passes = 2
    => ((engine.header = engine.first) <=> NoSelfMatch(headerRules))

\* C10, amended: for a rule list of set-header and del-header rules only, the
\* second pass of the engine leaves the header as the first pass made it.
C10_SetDelIdempotent ==
    (engine.passes = 2 /\ OnlySetDel(headerRules))
    => engine.header = engine.first

C10_Witness ==
    /\ engine.passes = 2
    /\ Len(headerRules) = 2
    /\ headerRules[1].Action = "del-header"
    /\ headerRules[2].Action = "set-header"
    /\ engine.first["X-A"] = <<<<"a">>>>
    /\ engine.header = engine.first

\* ------------------------------------------------- claims of SpecMutex
\* the goroutines of a worker that have passed mu.Lock and not yet returned
InHandler(w) == { g \in Goroutines : handlers[w][g].pc \notin {"none", "lock"} }

FirstSwitchAway ==
    /\ lastSet = "ok"
    /\ activeProxyKey # URLString(ProxyURL(1))
    /\ \/ switches = 0 /\ pmPc = "publish"
       \/ switches = 1 /\ pmPc = "idle"

\* worker 1 takes the step that reads active_proxy
ReadsActive == req[1].pc = "active" /\ req'[1] # req[1]

\* C14, as claimed: once the write of a switch from worker 1 to another
\* endpoint has completed, every request whose read of active_proxy follows
\* (and succeeds) is shed with a redirect.
C14_EveryLaterReadSheds ==
    [][(FirstSwitchAway /\ ReadsActive /\ resp'[1].cause # "store")
       => resp'[1].cause = "shed"]_vars

\* C14, amended: a request gets past the active check only if the record it
\* read was "https://" + its Host; after a completed write, a request whose
\* read succeeds and whose Host is not the written endpoint's is shed with a
\* 302 and not forwarded.
C14_OnlyHostOfRecordPasses ==
    /\ [](\A w \in Workers :
            req[w].pc \in {"detect", "forward"}
            => req[w].active = "https://" \o req[w].r.host)
    /\ [][(/\ lastSet = "ok"
           /\ pmPc # "set"
           /\ ReadsActive
           /\ resp'[1].cause # "store"
           /\ activeProxyKey # "https://" \o req[1].r.host)
          => /\ req'[1] = NoReq
             /\ resp'[1].cause = "shed"
             /\ resp'[1].status = 302
             /\ resp'[1].location = activeProxyKey \o RequestURI(req[1].r.uri)
             /\ ~resp'[1].forwarded]_vars

\* the last request of worker 1: read before the write, forwarded after it
C14_Witness ==
    /\ FirstSwitchAway
    /\ req[1].pc = "forward"
    /\ req[1].r.host = WorkerHost(1)
    /\ req[1].active = URLString(ProxyURL(1))
    /\ activeProxyKey = URLString(ProxyURL(2))

\* ---------------------------------------- claims of SpecWorker, continued
\* C12: a worker whose read of active_proxy fails while it handles a request
\* does the active check with the default URL instead of answering with an
\* error status.
C12_FallbackOnStoreFailure ==
    \A w \in Workers :
        (Answered(w) /\ resp[w].cause = "store")
        => /\ resp[w].status < 400
           /\ Sheds(resp[w].r, DefaultActiveProxy)
                => /\ resp[w].status = 302
                   /\ resp[w].location =
                        DefaultActiveProxy \o RequestURI(resp[w].r.uri)

\* --------------------------------------------- claims of SpecSuspicion
\* C11: with detection enabled, a worker that receives a request of a source
\* whose rating exceeds maxSuspicion refuses it with 403 at once.
C11_WorkerRefusesSuspect ==
    [][\A a \in Addrs :
          (/\ flags.detection
           /\ requestCounts'[1][a] # requestCounts[1][a]
           /\ GetRating(rating, RatingKey(a)) > MaxSuspicion)
          => resp'[1].status = 403]_vars

\* C19: with detection enabled, a request at the entry point raises the rating
\* of its source by exactly 5 when it is detected as an attack and by exactly
\* 1 when it is not, no step lowers a rating, and a source whose rating
\* exceeds maxSuspicion is refused with 403.
C19_RatingSteps ==
    [][/\ \A a \in Addrs : rating'[a] >= rating[a]
       /\ \A a \in Addrs, attack \in BOOLEAN :
            (flags.detection /\ EntryRequest(RatingKey(a), <<"x">>, FALSE, attack))
            => /\ rating'[a] - rating[a] = IF attack THEN 5 ELSE 1
               /\ rating[a] > MaxSuspicion => entryResp'.status = 403]_vars

====
